---- MODULE Spec2Model ----
(***************************************************************************)
(* A model of the RIFF container reader of immeta (src/common/riff.rs):    *)
(* RiffReader::root, RiffListChunk::next, RiffChunk::contents,             *)
(* RiffChunk::can_have_subchunks, RiffChunk::into_list and the Counter /   *)
(* Take read views that tie a child to the list that produced it.          *)
(*                                                                         *)
(* The byte source is an in-memory slice (as in the tests of riff.rs):     *)
(* `data` is the whole input and `pos` the number of bytes consumed.       *)
(* The borrow structure of the Rust types is the shape of the state: the   *)
(* live lists form a stack (`lists`, root first), the child produced by    *)
(* the innermost list is `chunk`, and an outer list can only be advanced   *)
(* after everything derived from it has been dropped.                      *)
(*                                                                         *)
(* A second specification, SpecLoad, models generic::load (generic.rs):    *)
(* the decoders are tried in turn on a seekable source, `ld` holds the     *)
(* position of that source, the attempts made and the GenericMetadata.     *)
(*                                                                         *)
(* SpecWalk is the reader under a caller that keeps calling next(), and    *)
(* SpecPng applies png::compute_color_depth (formats/png.rs) to every pair *)
(* of bytes; `png` holds the arguments and the result of that call.        *)
(***************************************************************************)
EXTENDS Integers, Sequences, FiniteSets, TLC

VARIABLES data, pos, lists, chunk, last, ld, png

vars == <<data, pos, lists, chunk, last, ld, png>>

\* the state of generic::load and of the GenericMetadata it returned; the RIFF
\* reader leaves it alone, as load leaves the reader's state alone
aux == <<ld, png>>
riff == <<data, pos, lists, chunk, last>>

(***************************************************************************)
(* Bounds of the model.                                                    *)
(***************************************************************************)
\* largest buffer a caller hands to one read() call on a payload view
MaxReq == 3
\* largest offset at which a decoder leaves the source of generic::load
MaxOff == 2
\* number of distinct metadata values a decoder can return
MaxMd == 2
\* largest bit depth and largest colour type byte (both u8) given to compute_color_depth
MaxBitDepth == 255
MaxColorType == 255

Min(a, b) == IF a < b THEN a ELSE b

(***************************************************************************)
(* Bytes, identifiers and the little-endian length field.                  *)
(***************************************************************************)
RIFF == <<82, 73, 70, 70>>
LIST == <<76, 73, 83, 84>>

\* tests::n : the 4 bytes of a u32, little endian
N(n) ==
    <<n % 256, (n \div 256) % 256, (n \div 65536) % 256, (n \div 16777216) % 256>>

\* read_u32 with the byte order reversed
BE32(b) ==
    b[4] + 256 * b[3] + 65536 * b[2] + 16777216 * b[1]

\* ReadBytesExt::read_u32::<LittleEndian> applied to 4 bytes
LE32(b) ==
    b[1] + 256 * b[2] + 65536 * b[3] + 16777216 * b[4]

Bytes(s, from, n) == SubSeq(s, from + 1, from + n)

(***************************************************************************)
(* Input streams.  tests::build! concatenates its arguments; Chunk and     *)
(* Container lay out one chunk the way the tests write them by hand:       *)
(* identifier, little-endian length, payload.                              *)
(***************************************************************************)
RECURSIVE Concat(_)
Concat(ss) == IF ss = <<>> THEN <<>> ELSE Head(ss) \o Concat(Tail(ss))

Chunk(id, payload) == id \o N(Len(payload)) \o payload

Container(id, type, children) == Chunk(id, type \o Concat(children))

IdA == <<65, 32, 32, 32>>
IdB == <<32, 66, 32, 32>>
IdC == <<32, 32, 67, 32>>
IdD == <<32, 32, 32, 68>>
IdE == <<69, 32, 32, 32>>
TagAbcd == <<97, 98, 99, 100>>
TagWxyz == <<119, 120, 121, 122>>
TagHi == <<104, 105, 32, 32>>

\* tests::test_invalid_header
InvalidHeaderData == <<88, 88, 88, 88, 4, 97, 98, 99, 100>>

\* tests::test_flat_chunks (the root declares 37 bytes, 29 follow)
FlatChunksData ==
    RIFF \o N(37) \o TagAbcd
      \o IdA \o N(4) \o <<49, 50, 51, 52>>
      \o <<66, 32, 32, 32>> \o N(5) \o <<53, 54, 55, 56, 57>>

\* tests::test_nested_chunks
NestedChunksData ==
    RIFF \o N(77) \o TagAbcd
      \o IdA \o N(1) \o <<122>>
      \o LIST \o N(56) \o TagWxyz
        \o IdB \o N(3) \o <<49, 50, 51>>
        \o LIST \o N(22) \o TagHi
          \o IdC \o N(0)
          \o IdD \o N(2) \o <<111, 112>>
        \o IdE \o N(3) \o <<102, 117, 122>>

\* tests::test_skip_chunk_data (the root declares 77 bytes, 58 follow)
SkipChunkData ==
    RIFF \o N(77) \o TagAbcd
      \o IdA \o N(10) \o <<97, 98, 99, 100, 101, 102, 103, 104, 105, 106>>
      \o IdB \o N(12) \o <<49, 50, 51, 52, 53, 54, 55, 56, 57, 48, 49, 50>>
      \o IdC \o N(8) \o <<65, 66, 67, 68, 69, 70, 71, 72>>

\* a flat file that exactly fills its declared length, followed by a second file
TwoFilesData ==
    Container(RIFF, TagAbcd, <<Chunk(IdA, <<49, 50>>), Chunk(IdB, <<>>), Chunk(IdC, <<51, 52, 53>>)>>)
      \o Container(RIFF, TagHi, <<Chunk(IdD, <<54>>)>>)

\* a nested list with a zero-length child, a RIFF-tagged child and a sibling after the list
SmallNestedData ==
    Container(RIFF, TagAbcd,
      << Chunk(IdA, <<122, 122>>),
         Container(LIST, TagWxyz,
           << Chunk(IdC, <<>>),
              Container(RIFF, TagHi, <<Chunk(IdD, <<111>>)>>),
              Chunk(IdB, <<49, 50>>) >>),
         Chunk(IdE, <<102>>) >>)
      \o <<88, 88>>

\* a child (and a nested list) whose declared length exceeds what is left of its parent
OverlongChildData ==
    RIFF \o N(34) \o TagAbcd
      \o LIST \o N(40) \o TagWxyz
        \o IdA \o N(9) \o <<49, 50, 51, 52, 53, 54>>
      \o IdB \o N(1) \o <<55>>
      \o IdC \o N(0)

\* a LIST child too short to hold its type tag, and an odd-length child before it
ShortListData ==
    Container(RIFF, TagAbcd,
      << Chunk(IdA, <<49, 50, 51>>), Chunk(LIST, <<119, 120>>), Chunk(IdB, <<52>>) >>)

Prefixes(s) == { SubSeq(s, 1, k) : k \in 0..Len(s) }

Streams ==
    {FlatChunksData, NestedChunksData, SkipChunkData}
      \cup Prefixes(InvalidHeaderData)
      \cup Prefixes(TwoFilesData)
      \cup Prefixes(SmallNestedData)
      \cup Prefixes(OverlongChildData)
      \cup Prefixes(ShortListData)

(***************************************************************************)
(* Error kinds (macros.rs, types::Error) and outcomes of an operation.     *)
(***************************************************************************)
InvalidFormat == "InvalidFormat"
UnexpectedEndOfFile == "UnexpectedEndOfFile"

\* From<io::Error> for types::Error, applied by `?` to the UnexpectedEof that
\* read_u32 reports on a truncated length field
IoEofError == UnexpectedEndOfFile

Errors == {InvalidFormat, UnexpectedEndOfFile, IoEofError}

(***************************************************************************)
(* The read views.  A list's `data` is Counter<Take<&mut dyn Read>>: the   *)
(* Take bounds it to the bytes left of the list's declared length, the     *)
(* delegate is the `data` of the enclosing list (the source for the root)  *)
(* and the counter is the enclosing list's cur_chunk_read (None for the    *)
(* root).  A child's view is one more such layer over the innermost list.  *)
(***************************************************************************)

\* a Take that passes every request on unchanged
TakeMaxLoose(req, limit) == req

\* std::io::Take::read : at most `limit` bytes are requested from the delegate
TakeMax(req, limit) == Min(req, limit)

\* a source that steps back by what it delivers
SourceReadRewinding(s, p, req) == 0 - Min(req, Len(s) - p)

\* Read for &[u8] : what one read() of `req` bytes on the source at p delivers
SourceRead(s, p, req) == Min(req, Len(s) - p)

\* the data of a list read without any Take on the way to the source
ListReadUnbounded(s, ls, p, req) == SourceRead(s, p, req)

\* bytes delivered by one read() of `req` bytes on the data of the innermost list of ls
RECURSIVE ListRead(_, _, _, _)
ListRead(s, ls, p, req) ==
    IF ls = <<>>
    THEN SourceRead(s, p, req)
    ELSE ListRead(s, SubSeq(ls, 1, Len(ls) - 1), p, TakeMax(req, ls[Len(ls)].limit))

\* a Counter that keeps the size of the last read only
CounterSet(counter, n) == n

\* Counter::read : `**counter += n as u32`
CounterAdd(counter, n) == counter + n

\* Counted for a list whose Counter was built without a counter
CountedUnreported(ls, n) ==
    [j \in 1..Len(ls) |-> [ls[j] EXCEPT !.limit = @ - n]]

\* Counted with the innermost list counting what goes through its own data
CountedOwn(ls, n) ==
    [j \in 1..Len(ls) |->
        [ls[j] EXCEPT !.limit = @ - n,
                      !.cur_chunk_read = CounterAdd(@, n)]]

\* the lists after n bytes went through the data of the innermost list: every
\* Take on the way is charged, every Counter on the way reports to the
\* cur_chunk_read of the list one level up
Counted(ls, n) ==
    [j \in 1..Len(ls) |->
        [ls[j] EXCEPT !.limit = @ - n,
                      !.cur_chunk_read = IF j < Len(ls) THEN CounterAdd(@, n) ELSE @]]

\* the lists after n bytes went through the view of the child of the innermost
\* list: as Counted, and the child's Counter reports to the innermost list
CountedChild(ls, n) ==
    [j \in 1..Len(ls) |->
        [ls[j] EXCEPT !.limit = @ - n,
                      !.cur_chunk_read = CounterAdd(@, n)]]

\* ChildRead without the `.take(len as u64)` around the child's view
ChildReadUntaken(s, ls, c, p, req) == ListRead(s, ls, p, req)

\* bytes delivered by one read() of `req` bytes on the view of child c
ChildRead(s, ls, c, p, req) == ListRead(s, ls, p, TakeMax(req, c.limit))

\* utils::ReadExt::read_exact_0 : reads until the buffer is full or the reader
\* is at its end, returns the number of bytes read
ReadExact0(s, ls, p, n) == ListRead(s, ls, p, n)

\* utils::ReadExt::skip_exact_0 : skips until n bytes are skipped or the reader
\* is at its end, returns the number of bytes skipped
SkipExact0(s, ls, p, n) == ListRead(s, ls, p, n)

\* read_id_and_len that takes a partial identifier for the end of the list
ReadIdAndLenLenient(s, ls, p) ==
    LET g == ReadExact0(s, ls, p, 4)
        h == ListRead(s, Counted(ls, g), p + g, 4)
    IN  IF g # 4 THEN [res |-> "none", used |-> g, idGot |-> g, id |-> <<>>, len |-> 0]
        ELSE IF h # 4
        THEN [res |-> IoEofError, used |-> 4 + h, idGot |-> 4, id |-> <<>>, len |-> 0]
        ELSE [res |-> "ok", used |-> 8, idGot |-> 4,
              id |-> Bytes(s, p, 4), len |-> LE32(Bytes(s, p + 4, 4))]

\* read_id_and_len that takes a truncated length field for the end of the list
ReadIdAndLenShortLen(s, ls, p) ==
    LET g == ReadExact0(s, ls, p, 4)
        h == ListRead(s, Counted(ls, g), p + g, 4)
    IN  IF g = 0 THEN [res |-> "none", used |-> 0, idGot |-> 0, id |-> <<>>, len |-> 0]
        ELSE IF g # 4
        THEN [res |-> UnexpectedEndOfFile, used |-> g, idGot |-> g, id |-> <<>>, len |-> 0]
        ELSE IF h # 4
        THEN [res |-> "none", used |-> 4 + h, idGot |-> 4, id |-> <<>>, len |-> 0]
        ELSE [res |-> "ok", used |-> 8, idGot |-> 4,
              id |-> Bytes(s, p, 4), len |-> LE32(Bytes(s, p + 4, 4))]

\* read_id_and_len that takes a header with length 0 for the end of the list
ReadIdAndLenZeroIsEnd(s, ls, p) ==
    LET g == ReadExact0(s, ls, p, 4)
        h == ListRead(s, Counted(ls, g), p + g, 4)
    IN  IF g = 0 THEN [res |-> "none", used |-> 0, idGot |-> 0, id |-> <<>>, len |-> 0]
        ELSE IF g # 4
        THEN [res |-> UnexpectedEndOfFile, used |-> g, idGot |-> g, id |-> <<>>, len |-> 0]
        ELSE IF h # 4
        THEN [res |-> IoEofError, used |-> 4 + h, idGot |-> 4, id |-> <<>>, len |-> 0]
        ELSE IF LE32(Bytes(s, p + 4, 4)) = 0
        THEN [res |-> "none", used |-> 8, idGot |-> 4, id |-> <<>>, len |-> 0]
        ELSE [res |-> "ok", used |-> 8, idGot |-> 4,
              id |-> Bytes(s, p, 4), len |-> LE32(Bytes(s, p + 4, 4))]

\* read_id_and_len on the data of the innermost list of ls (on the source when
\* ls is empty): outcome, bytes consumed, identifier and length
ReadIdAndLen(s, ls, p) ==
    LET g == ReadExact0(s, ls, p, 4)
        h == ListRead(s, Counted(ls, g), p + g, 4)
    IN  IF g = 0 THEN [res |-> "none", used |-> 0, idGot |-> 0, id |-> <<>>, len |-> 0]
        ELSE IF g # 4
        THEN [res |-> UnexpectedEndOfFile, used |-> g, idGot |-> g, id |-> <<>>, len |-> 0]
        ELSE IF h # 4
        THEN [res |-> IoEofError, used |-> 4 + h, idGot |-> 4, id |-> <<>>, len |-> 0]
        ELSE [res |-> "ok", used |-> 8, idGot |-> 4,
              id |-> Bytes(s, p, 4), len |-> LE32(Bytes(s, p + 4, 4))]

(***************************************************************************)
(* Chunks and lists.  Besides the fields of the Rust structs a record      *)
(* carries the Take limit of its view (`limit`) and history fields that    *)
(* only the properties read: hdr (offset of the header in the source),     *)
(* got (the bytes the view has returned), viewed (contents() was called),  *)
(* count (children produced), childHdr (offset of the last child's header),*)
(* childListed (that child became a list), childEnded (and that list had   *)
(* returned None when it was dropped), fullReads (children dropped after   *)
(* their view returned all declared bytes), lastRes (outcome of the last   *)
(* next()) and sawNone (next() has returned None).                         *)
(***************************************************************************)

\* a RiffChunk whose view is taken one byte longer than the declared length
NewChunkLoose(id, len, hdr) ==
    [chunk_id |-> id, len |-> len, tainted |-> FALSE, limit |-> len + 1,
     hdr |-> hdr, got |-> <<>>, viewed |-> FALSE]

\* the RiffChunk built by RiffListChunk::next and by RiffReader::root
NewChunk(id, len, hdr) ==
    [chunk_id |-> id, len |-> len, tainted |-> FALSE, limit |-> len,
     hdr |-> hdr, got |-> <<>>, viewed |-> FALSE]

\* can_have_subchunks that forgets the tainted flag
CanHaveSubchunksTainted(c) ==
    c.chunk_id = RIFF \/ c.chunk_id = LIST

\* can_have_subchunks that knows LIST only
CanHaveSubchunksListOnly(c) ==
    ~c.tainted /\ c.chunk_id = LIST

\* RiffChunk::can_have_subchunks
CanHaveSubchunks(c) ==
    ~c.tainted /\ (c.chunk_id = RIFF \/ c.chunk_id = LIST)

\* a RiffListChunk whose view forgets that the type tag was read from it
NewListWholeLimit(c, type) ==
    [chunk_id |-> c.chunk_id, len |-> c.len, chunk_type |-> type,
     limit |-> c.len, cur_chunk_len |-> 0, cur_chunk_read |-> 0,
     hdr |-> c.hdr, count |-> 0, childHdr |-> -1, childListed |-> FALSE, childEnded |-> FALSE,
     fullReads |-> 0, lastRes |-> "fresh", sawNone |-> FALSE]

\* the RiffListChunk built by RiffChunk::into_list_unchecked from chunk c
\* once the 4 bytes of the type tag have been read from c's view
NewList(c, type) ==
    [chunk_id |-> c.chunk_id, len |-> c.len, chunk_type |-> type,
     limit |-> c.limit - 4, cur_chunk_len |-> 0, cur_chunk_read |-> 0,
     hdr |-> c.hdr, count |-> 0, childHdr |-> -1, childListed |-> FALSE, childEnded |-> FALSE,
     fullReads |-> 0, lastRes |-> "fresh", sawNone |-> FALSE]

\* into_list_unchecked that builds the list from whatever the tag read returned
IntoListUncheckedAnyTag(s, ls, c, p) ==
    LET g == ChildRead(s, ls, c, p, 4)
    IN  [res |-> "list", used |-> g,
         lists |-> Append(CountedChild(ls, g), NewList(c, Bytes(s, p, g)))]

\* RiffChunk::into_list_unchecked on chunk c, child of the innermost list of ls
IntoListUnchecked(s, ls, c, p) ==
    LET g == ChildRead(s, ls, c, p, 4)
    IN  IF g # 4
        THEN [res |-> UnexpectedEndOfFile, used |-> g, lists |-> CountedChild(ls, g)]
        ELSE [res |-> "list", used |-> 4,
              lists |-> Append(CountedChild(ls, 4), NewList(c, Bytes(s, p, 4)))]

\* the record of the operation performed last
NoLast ==
    [op |-> "new", res |-> "", id |-> <<>>, len |-> 0, at |-> 0, hdrAt |-> -1,
     req |-> 0, idGot |-> -1, skipped |-> 0, prevHdr |-> -1, prevLen |-> 0,
     prevListed |-> FALSE, prevEnded |-> FALSE, prevRes |-> "", flag |-> FALSE, depth |-> 0]

(***************************************************************************)
(* generic::load and the markers of GenericMetadata.                       *)
(***************************************************************************)

\* an I/O failure of the source, as `?` hands it on
IoFailure == "Io"

\* load with the JPEG decoder tried first
LoadOrderJpegFirst == <<"Jpeg", "Png", "Gif", "Webp">>

\* generic::load : the decoders in the order of the attempts; the names are
\* the variants of GenericMetadata the results are wrapped in
LoadOrder == <<"Png", "Gif", "Webp", "Jpeg">>

\* r.seek(SeekFrom::Start(off)) : the position of the source afterwards
SeekFromStart(at, off) == off

\* what a decoder's load_from_seek can do with the source: succeed with some
\* metadata or fail with any kind of error, leaving the source anywhere
DecoderOutcomes ==
    [res : {"ok", InvalidFormat, UnexpectedEndOfFile, IoFailure},
     md : 1..MaxMd, end : 0..MaxOff]

NoGmd == [variant |-> "", md |-> 0]

NoConv == [op |-> "", marker |-> "", res |-> "", md |-> 0, back |-> NoGmd, orig |-> NoGmd]

\* no load() in progress, no GenericMetadata at hand, source at offset 0
IdleLoad ==
    [pc |-> "idle", idx |-> 0, at |-> 0, tried |-> <<>>, res |-> "",
     gmd |-> NoGmd, conv |-> NoConv]

\* the markers with Png and Gif bound to each other's variant
MarkerVariantSwapped(m) ==
    CASE m = "Jpeg" -> "Jpeg" [] m = "Png" -> "Gif" [] m = "Gif" -> "Png" [] m = "Webp" -> "Webp"

\* impl_metadata_marker! { $name, $gvar, $mtpe } : the variant a marker stands for
MarkerVariant(m) ==
    CASE m = "Jpeg" -> "Jpeg" [] m = "Png" -> "Png" [] m = "Gif" -> "Gif" [] m = "Webp" -> "Webp"

Markers == {"Jpeg", "Png", "Gif", "Webp"}

\* MetadataMarker::from_generic
FromGeneric(m, g) ==
    IF g.variant = MarkerVariant(m)
    THEN [res |-> "Ok", md |-> g.md, back |-> NoGmd]
    ELSE [res |-> "Err", md |-> 0, back |-> g]

\* MetadataMarker::from_generic_ref
FromGenericRef(m, g) ==
    IF g.variant = MarkerVariant(m)
    THEN [res |-> "Some", md |-> g.md]
    ELSE [res |-> "None", md |-> 0]

(***************************************************************************)
(* formats/png.rs : the colour depth of an IHDR chunk.                     *)
(***************************************************************************)
CT_GRAYSCALE == 0
CT_RGB == 2
CT_INDEXED == 3
CT_GRAYSCALE_ALPHA == 4
CT_RGB_ALPHA == 6

None == [some |-> FALSE, val |-> 0]

Some(v) == [some |-> TRUE, val |-> v]

\* `bit_depth * n` on u8
MulU8(a, b) == (a * b) % 256

\* compute_color_depth that takes 16-bit indexed colour
ComputeColorDepthIndexed16(bit_depth, color_type) ==
    IF color_type = CT_INDEXED
    THEN IF bit_depth \in {1, 2, 4, 8, 16} THEN Some(bit_depth) ELSE None
    ELSE IF color_type = CT_GRAYSCALE
    THEN IF bit_depth \in {1, 2, 4, 8, 16} THEN Some(bit_depth) ELSE None
    ELSE IF color_type = CT_GRAYSCALE_ALPHA
    THEN IF bit_depth \in {8, 16} THEN Some(MulU8(bit_depth, 2)) ELSE None
    ELSE IF color_type = CT_RGB
    THEN IF bit_depth \in {8, 16} THEN Some(MulU8(bit_depth, 3)) ELSE None
    ELSE IF color_type = CT_RGB_ALPHA
    THEN IF bit_depth \in {8, 16} THEN Some(MulU8(bit_depth, 4)) ELSE None
    ELSE None

\* compute_color_depth
ComputeColorDepth(bit_depth, color_type) ==
    IF color_type = CT_INDEXED
    THEN IF bit_depth \in {1, 2, 4, 8} THEN Some(bit_depth) ELSE None
    ELSE IF color_type = CT_GRAYSCALE
    THEN IF bit_depth \in {1, 2, 4, 8, 16} THEN Some(bit_depth) ELSE None
    ELSE IF color_type = CT_GRAYSCALE_ALPHA
    THEN IF bit_depth \in {8, 16} THEN Some(MulU8(bit_depth, 2)) ELSE None
    ELSE IF color_type = CT_RGB
    THEN IF bit_depth \in {8, 16} THEN Some(MulU8(bit_depth, 3)) ELSE None
    ELSE IF color_type = CT_RGB_ALPHA
    THEN IF bit_depth \in {8, 16} THEN Some(MulU8(bit_depth, 4)) ELSE None
    ELSE None

\* no call of compute_color_depth made
IdlePng == [bit_depth |-> 0, color_type |-> 0, called |-> FALSE, res |-> None]

Init ==
    /\ data \in Streams
    /\ pos = 0
    /\ lists = <<>>
    /\ chunk = <<>>
    /\ last = NoLast
    /\ ld = IdleLoad
    /\ png = IdlePng

\* a root() that takes the end of the source for a wrong header
RootAtEndInvalid == InvalidFormat

\* RiffReader::root : `None => return Err(unexpected_eof!())`
RootAtEnd == UnexpectedEndOfFile

\* a root() that accepts any identifier
IsRiffHeaderAny(id) == TRUE

\* RiffReader::root : `id.as_bytes() != b"RIFF"` is an invalid header
IsRiffHeader(id) == id = RIFF

\* RiffReader::root
Root ==
    /\ UNCHANGED aux
    /\ lists = <<>>
    /\ chunk = <<>>
    /\ LET r == ReadIdAndLen(data, <<>>, pos)
           base == [NoLast EXCEPT !.op = "root", !.at = pos, !.hdrAt = pos,
                                  !.idGot = r.idGot]
       IN  IF r.res = "none"
           THEN /\ last' = [base EXCEPT !.res = RootAtEnd]
                /\ UNCHANGED <<data, pos, lists, chunk>>
           ELSE IF r.res = IoEofError /\ r.idGot = 4
           THEN \* read_exact on the source itself: on failure it is
                \* unspecified how many of the remaining bytes were taken
                /\ \E used \in 4..r.used : pos' = pos + used
                /\ last' = [base EXCEPT !.res = IoEofError]
                /\ UNCHANGED <<data, lists, chunk>>
           ELSE IF r.res # "ok"
           THEN /\ pos' = pos + r.used
                /\ last' = [base EXCEPT !.res = r.res]
                /\ UNCHANGED <<data, lists, chunk>>
           ELSE IF ~IsRiffHeader(r.id)
           THEN /\ pos' = pos + r.used
                /\ last' = [base EXCEPT !.res = InvalidFormat, !.id = r.id, !.len = r.len]
                /\ UNCHANGED <<data, lists, chunk>>
           ELSE LET t == IntoListUnchecked(data, <<>>, NewChunk(r.id, r.len, pos), pos + 8)
                IN  /\ pos' = pos + 8 + t.used
                    /\ lists' = t.lists
                    /\ last' = [base EXCEPT !.res = t.res, !.id = r.id, !.len = r.len,
                                            !.depth = Len(t.lists)]
                    /\ UNCHANGED <<data, chunk>>

\* ToSkip that forgets the bytes the caller has read already
ToSkipWhole(l) ==
    IF l.cur_chunk_read < l.cur_chunk_len
    THEN l.cur_chunk_len
    ELSE 0

\* ToSkip with a pad byte after a child of odd length
ToSkipPadded(l) ==
    (l.cur_chunk_len - l.cur_chunk_read) + (l.cur_chunk_len % 2)

\* the bytes RiffListChunk::next has to skip before it reads a header
ToSkip(l) ==
    IF l.cur_chunk_read < l.cur_chunk_len
    THEN l.cur_chunk_len - l.cur_chunk_read
    ELSE 0

\* the innermost list of ls with its history fields set after a next() call
Noted(ls, res) ==
    [ls EXCEPT ![Len(ls)].lastRes = res,
               ![Len(ls)].sawNone = @ \/ res = "none"]

\* a next() that could be called while the child it produced is in use
NextCallableAliased(ls, c) == ls # <<>>

\* `next(&mut self) -> Option<Result<RiffChunk>>` : the chunk returned keeps
\* the exclusive borrow of the list (RiffChunk<'a> holds &'a mut dyn Read and
\* the counter), so next() can be called only when no chunk is alive
NextCallable(ls, c) == ls # <<>> /\ c = <<>>

\* RiffListChunk::next on the innermost live list
Next ==
    /\ UNCHANGED aux
    /\ NextCallable(lists, chunk)
    /\ LET top == Len(lists)
           l == lists[top]
           to_skip == ToSkip(l)
           n == SkipExact0(data, lists, pos, to_skip)
           ls1 == Counted(lists, n)
           r == ReadIdAndLen(data, ls1, pos + n)
           ls2 == Counted(ls1, r.used)
           base == [NoLast EXCEPT !.op = "next", !.at = pos, !.skipped = n,
                                  !.prevHdr = l.childHdr, !.prevLen = l.cur_chunk_len,
                                  !.prevListed = l.childListed, !.prevEnded = l.childEnded,
                                  !.prevRes = l.lastRes, !.depth = top]
       IN  IF n # to_skip
           THEN /\ pos' = pos + n
                /\ lists' = Noted(ls1, UnexpectedEndOfFile)
                /\ last' = [base EXCEPT !.res = UnexpectedEndOfFile]
                /\ UNCHANGED <<data, chunk>>
           ELSE IF r.res # "ok"
           THEN /\ pos' = pos + n + r.used
                /\ lists' = Noted(ls2, r.res)
                /\ last' = [base EXCEPT !.res = r.res, !.hdrAt = pos + n, !.idGot = r.idGot]
                /\ UNCHANGED <<data, chunk>>
           ELSE /\ pos' = pos + n + r.used
                /\ lists' = [Noted(ls2, "chunk") EXCEPT
                                ![top].cur_chunk_read = 0,
                                ![top].cur_chunk_len = r.len,
                                ![top].count = @ + 1,
                                ![top].childHdr = pos + n,
                                ![top].childListed = FALSE,
                                ![top].childEnded = FALSE]
                /\ chunk' = <<NewChunk(r.id, r.len, pos + n)>>
                /\ last' = [base EXCEPT !.res = "chunk", !.hdrAt = pos + n, !.idGot = r.idGot,
                                        !.id = r.id, !.len = r.len]
                /\ UNCHANGED data

\* contents() that hands out the view without marking the chunk
ContentsUnmarked ==
    /\ UNCHANGED aux
    /\ chunk # <<>>
    /\ chunk' = <<[chunk[1] EXCEPT !.viewed = TRUE]>>
    /\ last' = [NoLast EXCEPT !.op = "contents", !.at = pos, !.depth = Len(lists)]
    /\ UNCHANGED <<data, pos, lists>>

\* RiffChunk::contents : hands out the payload view
Contents ==
    /\ UNCHANGED aux
    /\ chunk # <<>>
    /\ chunk' = <<[chunk[1] EXCEPT !.tainted = TRUE, !.viewed = TRUE]>>
    /\ last' = [NoLast EXCEPT !.op = "contents", !.at = pos, !.depth = Len(lists)]
    /\ UNCHANGED <<data, pos, lists>>

\* one read() of req bytes on the view that contents() handed out
ReadView(req) ==
    /\ UNCHANGED aux
    /\ chunk # <<>>
    /\ chunk[1].viewed
    /\ LET c == chunk[1]
           n == ChildRead(data, lists, c, pos, req)
       IN  /\ pos' = pos + n
           /\ chunk' = <<[c EXCEPT !.limit = @ - n, !.got = @ \o Bytes(data, pos, n)]>>
           /\ lists' = CountedChild(lists, n)
           /\ last' = [NoLast EXCEPT !.op = "read", !.at = pos, !.req = req, !.len = n,
                                     !.depth = Len(lists)]
    /\ UNCHANGED data

\* a call of RiffChunk::can_have_subchunks, its answer kept in last.flag
Query ==
    /\ UNCHANGED aux
    /\ chunk # <<>>
    /\ last' = [NoLast EXCEPT !.op = "can_have_subchunks", !.at = pos,
                              !.flag = CanHaveSubchunks(chunk[1]), !.depth = Len(lists)]
    /\ UNCHANGED <<data, pos, lists, chunk>>

\* RiffChunk::into_list
IntoList ==
    /\ UNCHANGED aux
    /\ chunk # <<>>
    /\ LET c == chunk[1]
           base == [NoLast EXCEPT !.op = "into_list", !.at = pos, !.id = c.chunk_id,
                                  !.len = c.len, !.flag = c.viewed,
                                  !.depth = Len(lists)]
       IN  IF CanHaveSubchunks(c)
           THEN LET t == IntoListUnchecked(data, lists, c, pos)
                IN  /\ pos' = pos + t.used
                    /\ lists' = IF t.res = "list"
                                THEN [t.lists EXCEPT ![Len(lists)].childListed = TRUE]
                                ELSE t.lists
                    /\ chunk' = <<>>
                    /\ last' = [base EXCEPT !.res = t.res]
                    /\ UNCHANGED data
           ELSE \* Err(self): the chunk goes back to the caller
                /\ last' = [base EXCEPT !.res = "chunk"]
                /\ UNCHANGED <<data, pos, lists, chunk>>

\* the caller lets go of the child of the innermost list
DropChunk ==
    /\ UNCHANGED aux
    /\ chunk # <<>>
    /\ chunk' = <<>>
    /\ lists' = [lists EXCEPT ![Len(lists)].fullReads =
                     IF Len(chunk[1].got) = chunk[1].len THEN @ + 1 ELSE @]
    /\ last' = [NoLast EXCEPT !.op = "drop", !.at = pos, !.depth = Len(lists)]
    /\ UNCHANGED <<data, pos>>

\* the caller lets go of the innermost list; its parent can be advanced again
DropList ==
    /\ UNCHANGED aux
    /\ chunk = <<>>
    /\ lists # <<>>
    /\ lists' = LET rest == SubSeq(lists, 1, Len(lists) - 1)
                 IN  IF rest = <<>> THEN rest
                     ELSE [rest EXCEPT ![Len(rest)].childEnded = lists[Len(lists)].sawNone]
    /\ last' = [NoLast EXCEPT !.op = "drop_list", !.at = pos, !.depth = Len(lists)]
    /\ UNCHANGED <<data, pos, chunk>>

Step ==
    \/ Root
    \/ Next
    \/ Contents
    \/ \E req \in 0..MaxReq : ReadView(req)
    \/ Query
    \/ IntoList
    \/ DropChunk
    \/ DropList

Spec == Init /\ [][Step]_vars

\* a caller that keeps calling next() on the innermost list and lets go of
\* a child it does not turn into a list
WalkStreams == {TwoFilesData, OverlongChildData, ShortListData}

InitWalk ==
    /\ data \in WalkStreams
    /\ pos = 0
    /\ lists = <<>>
    /\ chunk = <<>>
    /\ last = NoLast
    /\ ld = IdleLoad
    /\ png = IdlePng

SpecWalk == InitWalk /\ [][Step]_vars /\ WF_vars(Next) /\ WF_vars(DropChunk)

(***************************************************************************)
(* generic::load, one step per seek and per decoder attempt.               *)
(***************************************************************************)
InitLoad ==
    /\ data = <<>>
    /\ pos = 0
    /\ lists = <<>>
    /\ chunk = <<>>
    /\ last = NoLast
    /\ \E at \in 0..MaxOff : ld = [IdleLoad EXCEPT !.at = at]
    /\ png = IdlePng

\* a call of generic::load on the source, wherever it stands
LoadCall ==
    /\ ld.pc \in {"idle", "done"}
    /\ ld' = [IdleLoad EXCEPT !.pc = "seek", !.idx = 1, !.at = ld.at]
    /\ UNCHANGED <<riff, png>>

\* `r.seek(SeekFrom::Start(0))?` before the attempt ld.idx
LoadSeek ==
    /\ ld.pc = "seek"
    /\ \E fails \in BOOLEAN :
          ld' = IF fails
                THEN [ld EXCEPT !.pc = "done", !.res = IoFailure]
                ELSE [ld EXCEPT !.pc = "try", !.at = SeekFromStart(ld.at, 0)]
    /\ UNCHANGED <<riff, png>>

\* `if let Ok(md) = <decoder>::Metadata::load_from_seek(r) { return Ok(..) }`
\* for the attempt ld.idx, and the final Err after the last one
LoadTry ==
    /\ ld.pc = "try"
    /\ \E o \in DecoderOutcomes :
          LET fmt == LoadOrder[ld.idx]
              log == Append(ld.tried, [fmt |-> fmt, at |-> ld.at, res |-> o.res, md |-> o.md])
          IN  ld' = IF o.res = "ok"
                    THEN [ld EXCEPT !.pc = "done", !.res = "ok", !.at = o.end, !.tried = log,
                                    !.gmd = [variant |-> fmt, md |-> o.md]]
                    ELSE IF ld.idx < Len(LoadOrder)
                    THEN [ld EXCEPT !.pc = "seek", !.idx = @ + 1, !.at = o.end, !.tried = log]
                    ELSE [ld EXCEPT !.pc = "done", !.res = InvalidFormat, !.at = o.end,
                                    !.tried = log]
    /\ UNCHANGED <<riff, png>>

\* GenericMetadata::into::<T>() on the value load returned
Into(m) ==
    /\ ld.pc = "done"
    /\ ld.gmd # NoGmd
    /\ LET c == FromGeneric(m, ld.gmd)
       IN  ld' = [ld EXCEPT !.conv = [op |-> "into", marker |-> m, res |-> c.res, md |-> c.md,
                                      back |-> c.back, orig |-> ld.gmd],
                            !.gmd = c.back]
    /\ UNCHANGED <<riff, png>>

\* GenericMetadata::as_ref::<T>() on the value load returned
AsRef(m) ==
    /\ ld.pc = "done"
    /\ ld.gmd # NoGmd
    /\ LET c == FromGenericRef(m, ld.gmd)
       IN  ld' = [ld EXCEPT !.conv = [op |-> "as_ref", marker |-> m, res |-> c.res, md |-> c.md,
                                      back |-> NoGmd, orig |-> ld.gmd]]
    /\ UNCHANGED <<riff, png>>

StepLoad ==
    \/ LoadCall
    \/ LoadSeek
    \/ LoadTry
    \/ \E m \in Markers : Into(m)
    \/ \E m \in Markers : AsRef(m)

SpecLoad == InitLoad /\ [][StepLoad]_vars

(***************************************************************************)
(* compute_color_depth applied to the two bytes of an IHDR chunk.          *)
(***************************************************************************)
InitPng ==
    /\ data = <<>>
    /\ pos = 0
    /\ lists = <<>>
    /\ chunk = <<>>
    /\ last = NoLast
    /\ ld = IdleLoad
    /\ \E b \in 0..MaxBitDepth, c \in 0..MaxColorType :
          png = [IdlePng EXCEPT !.bit_depth = b, !.color_type = c]

\* a call compute_color_depth(bit_depth, color_type)
ColorDepth ==
    /\ ~png.called
    /\ png' = [png EXCEPT !.called = TRUE,
                          !.res = ComputeColorDepth(png.bit_depth, png.color_type)]
    /\ UNCHANGED <<riff, ld>>

StepPng == ColorDepth

SpecPng == InitPng /\ [][StepPng]_vars

(***************************************************************************)
(* Properties.                                                             *)
(***************************************************************************)

\* C1: whatever read calls are made on the view that contents() returned, with
\* whatever buffer sizes, the view of a chunk produced by next() never returns
\* more bytes in total than the chunk's declared length len().
C1_ViewBoundedByLen ==
    chunk # <<>> => Len(chunk[1].got) <= chunk[1].len

\* a read asked for more than was left of a non-empty chunk, the source still
\* had bytes, and the view stopped at the declared length
C1_Witness ==
    /\ chunk # <<>>
    /\ last.op = "read"
    /\ last.req > last.len
    /\ chunk[1].len > 0
    /\ Len(chunk[1].got) = chunk[1].len
    /\ pos < Len(data)

\* C2: once next() has returned None on a list, every later next() on that
\* list returns None too, whatever was done with the children before.
C2_NoneIsTerminal ==
    \A j \in 1..Len(lists) : lists[j].sawNone => lists[j].lastRes = "none"

\* the offset right after the payload of the child that the next() call
\* recorded in `last` found as the list's previous child
AfterPrev == last.prevHdr + 8 + last.prevLen

\* a whole header lies at offset e inside the source and inside the declared
\* length of every live list
HeaderFitsAt(e) ==
    /\ e + 8 <= Len(data)
    /\ \A j \in 1..Len(lists) : e - lists[j].hdr <= lists[j].len

\* C3: when the list is well formed up to the following sibling, next() returns
\* that sibling with its identifier and declared length, whether all, some or
\* none of the previous child's payload was read: the unread remainder
\* (declared length minus bytes read) is skipped first.
C3_SkipRemainder ==
    (/\ last.op = "next"
     /\ last.prevHdr >= 0
     /\ last.prevLen <= Len(data)
     /\ HeaderFitsAt(AfterPrev))
    => /\ last.res = "chunk"
       /\ last.hdrAt = AfterPrev
       /\ last.skipped = AfterPrev - last.at
       /\ last.id = Bytes(data, AfterPrev, 4)
       /\ N(last.len) = Bytes(data, AfterPrev + 4, 4)

\* next() found the sibling after a child of which some bytes, not all, were read
C3_Witness ==
    /\ last.op = "next"
    /\ last.res = "chunk"
    /\ last.prevHdr >= 0
    /\ last.skipped > 0
    /\ last.skipped < last.prevLen
    /\ ~last.prevListed

\* C4: into_list() on a chunk that is already touched or whose identifier is
\* neither RIFF nor LIST gives the chunk back: identifier, length and touched
\* flag are unchanged and no byte of the source is consumed.
C4_IntoListRefused ==
    [][ (/\ IntoList
         /\ (chunk[1].viewed \/ chunk[1].chunk_id \notin {RIFF, LIST}))
        => /\ chunk' = chunk
           /\ pos' = pos
           /\ lists' = lists
           /\ last'.res = "chunk" ]_vars

\* into_list() was refused on a LIST chunk whose view had been handed out
C4_Witness ==
    /\ last.op = "into_list"
    /\ last.res = "chunk"
    /\ last.flag
    /\ chunk # <<>>
    /\ chunk[1].chunk_id = LIST
    /\ chunk[1].limit = chunk[1].len

(***************************************************************************)
(* The container format of the tests, read off the way the streams are     *)
(* built: a region [p, end) is a run of chunks when it is empty or starts  *)
(* with identifier, the length field N(l) and l payload bytes, followed by *)
(* a run of chunks.                                                        *)
(***************************************************************************)
HasLenField(s, p) == \E l \in 0..Len(s) : N(l) = Bytes(s, p + 4, 4)

LenField(s, p) == CHOOSE l \in 0..Len(s) : N(l) = Bytes(s, p + 4, 4)

RECURSIVE FlatOk(_, _, _)
FlatOk(s, p, end) ==
    \/ p = end
    \/ /\ p + 8 <= end
       /\ HasLenField(s, p)
       /\ p + 8 + LenField(s, p) <= end
       /\ FlatOk(s, p + 8 + LenField(s, p), end)

RECURSIVE FlatKids(_, _, _)
FlatKids(s, p, end) ==
    IF p >= end THEN <<>>
    ELSE <<[id |-> Bytes(s, p, 4), len |-> LenField(s, p),
            payload |-> Bytes(s, p + 8, LenField(s, p))]>>
         \o FlatKids(s, p + 8 + LenField(s, p), end)

\* at offset h starts a RIFF file: root tag, a length that the stream holds in
\* full, a 4-byte form type and chunks that exactly fill the rest
WellFormedFlatAt(s, h) ==
    /\ h + 12 <= Len(s)
    /\ Bytes(s, h, 4) = RIFF
    /\ HasLenField(s, h)
    /\ LenField(s, h) >= 4
    /\ h + 8 + LenField(s, h) <= Len(s)
    /\ FlatOk(s, h + 12, h + 8 + LenField(s, h))

ExpectedKids(s, h) == FlatKids(s, h + 12, h + 8 + LenField(s, h))

\* every child the root list has produced so far was dropped after its view
\* had returned all of its declared bytes (the live one may still be in use)
AllReadToEnd ==
    /\ Len(lists) = 1
    /\ lists[1].fullReads = lists[1].count - (IF chunk # <<>> THEN 1 ELSE 0)

\* C5: on a well-formed flat RIFF file, root() and repeated next() with every
\* payload read to its end yield exactly the file's children in stream order,
\* each with its identifier, declared length and payload bytes, then None.
C5_FlatTraversal ==
    (/\ lists # <<>>
     /\ AllReadToEnd
     /\ WellFormedFlatAt(data, lists[1].hdr))
    => LET r == lists[1]
           e == ExpectedKids(data, r.hdr)
       IN  /\ r.count <= Len(e)
           /\ r.lastRes \in {"fresh", "chunk", "none"}
           /\ r.lastRes = "fresh" => r.count = 0
           /\ r.lastRes = "none" => r.count = Len(e)
           /\ chunk # <<>> =>
                /\ chunk[1].chunk_id = e[r.count].id
                /\ chunk[1].len = e[r.count].len
                /\ Len(chunk[1].got) <= e[r.count].len
                /\ chunk[1].got = SubSeq(e[r.count].payload, 1, Len(chunk[1].got))
                /\ (last.op = "read" /\ last.len < last.req)
                      => chunk[1].got = e[r.count].payload

\* a file of three children was walked to its end, every payload read in full,
\* and bytes of another file follow in the source
C5_Witness ==
    /\ Len(lists) = 1
    /\ WellFormedFlatAt(data, lists[1].hdr)
    /\ lists[1].lastRes = "none"
    /\ lists[1].count = 3
    /\ lists[1].fullReads = 3
    /\ pos < Len(data)

\* the offset right after the declared length of live list j
ListEnd(j) == lists[j].hdr + 8 + lists[j].len

\* list j lies inside the source and inside every list around it
ListFits(j) ==
    /\ lists[j].len <= Len(data)
    /\ ListEnd(j) <= Len(data)
    /\ \A i \in 1..(j - 1) : lists[i].len <= Len(data) /\ ListEnd(j) <= ListEnd(i)

\* C6: after a LIST child was turned into a list with into_list(), walked and
\* released, the parent's next() yields the sibling that follows the nested
\* list; and next() of a nested list returns None exactly where its own
\* declared length ends, even though the source holds more bytes.
C6_NestedTraversal ==
    /\ (/\ last.op = "next"
        /\ last.prevListed
        /\ last.prevLen <= Len(data)
        /\ HeaderFitsAt(AfterPrev))
       => /\ last.res = "chunk"
          /\ last.hdrAt = AfterPrev
          /\ last.id = Bytes(data, AfterPrev, 4)
          /\ N(last.len) = Bytes(data, AfterPrev + 4, 4)
    /\ (/\ last.op = "next"
        /\ last.depth >= 2
        /\ ListFits(last.depth))
       => /\ last.hdrAt = ListEnd(last.depth) => last.res = "none"
          /\ last.res = "none" => last.hdrAt = ListEnd(last.depth)
          /\ last.res = "chunk" => last.hdrAt + 8 <= ListEnd(last.depth)

\* a nested list produced the sibling after a list nested in it, which had been
\* walked to its None and released
C6_Witness ==
    /\ last.op = "next"
    /\ last.res = "chunk"
    /\ last.depth = 2
    /\ last.prevListed
    /\ last.prevEnded
    /\ last.skipped = 0

\* the nested list of a nested list returned None at the end of its declared
\* length with bytes of its parents left in the source
C6_WitnessNone ==
    /\ last.op = "next"
    /\ last.res = "none"
    /\ last.depth = 3
    /\ ListFits(3)
    /\ pos = ListEnd(3)
    /\ pos < ListEnd(2)
    /\ lists[3].count >= 1

\* C7 (as claimed): root() on a stream that begins with a 4-byte tag other than
\* RIFF returns an invalid-format error, and no child header is parsed first.
C7_Original ==
    (/\ last.op = "root"
     /\ last.at + 4 <= Len(data)
     /\ Bytes(data, last.at, 4) # RIFF)
    => /\ last.res = InvalidFormat
       /\ lists = <<>>
       /\ chunk = <<>>
       /\ pos = last.at + 8

\* C7 (amended): root() on a stream that begins with a 4-byte tag other than
\* RIFF followed by the 4 bytes of the length field returns an invalid-format
\* error; only those 8 bytes are consumed, no list and no child is produced.
C7_InvalidHeader ==
    (/\ last.op = "root"
     /\ last.at + 8 <= Len(data)
     /\ Bytes(data, last.at, 4) # RIFF)
    => /\ last.res = InvalidFormat
       /\ lists = <<>>
       /\ chunk = <<>>
       /\ pos = last.at + 8

\* root() refused a stream that starts with another tag and holds more bytes
C7_Witness ==
    /\ last.op = "root"
    /\ last.at = 0
    /\ last.res = InvalidFormat
    /\ Bytes(data, 0, 4) # RIFF
    /\ pos < Len(data)

\* the bytes that the innermost list can still deliver from offset h on: what
\* is left of the source and of the declared length of every live list
AvailAt(h) ==
    LET left(j) == IF lists[j].len > Len(data) THEN Len(data) - h ELSE ListEnd(j) - h
        RECURSIVE least(_)
        least(j) == IF j = 0 THEN Len(data) - h ELSE Min(left(j), least(j - 1))
    IN  least(Len(lists))

\* C8: when next() starts to read a child header, no byte at all means None
\* (not an error), 1 to 3 identifier bytes and then the end of input mean an
\* unexpected-end-of-input error; the two outcomes differ.
C8_HeaderEof ==
    (last.op = "next" /\ last.hdrAt >= 0)
    => /\ AvailAt(last.hdrAt) = 0 =>
              /\ last.res = "none"
              /\ lists[last.depth].lastRes = "none"
              /\ pos = last.hdrAt
       /\ AvailAt(last.hdrAt) \in 1..3 =>
              /\ last.res = UnexpectedEndOfFile
              /\ last.idGot = AvailAt(last.hdrAt)
              /\ lists[last.depth].lastRes = UnexpectedEndOfFile
              /\ lists[last.depth].lastRes # "none"
              /\ chunk = <<>>

\* next() met the end of the input two bytes into an identifier
C8_Witness ==
    /\ last.op = "next"
    /\ last.hdrAt >= 0
    /\ AvailAt(last.hdrAt) = 2
    /\ last.res = UnexpectedEndOfFile
    /\ pos = Len(data)

\* C9: can_have_subchunks() answers true exactly when contents() was never
\* called on the chunk and its identifier is RIFF or LIST.
C9_CanHaveSubchunks ==
    (last.op = "can_have_subchunks" /\ chunk # <<>>)
    => (last.flag <=> (~chunk[1].viewed /\ chunk[1].chunk_id \in {RIFF, LIST}))

\* a RIFF-tagged child answered true, fresh from next()
C9_Witness ==
    /\ last.op = "can_have_subchunks"
    /\ last.flag
    /\ chunk # <<>>
    /\ chunk[1].chunk_id = RIFF

\* a LIST child answered false after contents()
C9_WitnessTouched ==
    /\ last.op = "can_have_subchunks"
    /\ ~last.flag
    /\ chunk # <<>>
    /\ chunk[1].chunk_id = LIST
    /\ chunk[1].got = <<>>

\* C10: a chunk is produced untouched, is touched from the first contents()
\* on, read or not, and no later operation on it clears the flag.
C10_TouchedSticks ==
    [][ /\ (chunk = <<>> /\ chunk' # <<>>) => ~chunk'[1].tainted
        /\ (chunk # <<>> /\ chunk' # <<>> /\ chunk[1].tainted) => chunk'[1].tainted
        /\ (chunk' # <<>> /\ chunk'[1].viewed) => chunk'[1].tainted
        /\ (chunk # <<>> /\ chunk' # <<>> /\ ~chunk[1].tainted /\ chunk'[1].tainted)
              => last'.op = "contents" ]_vars

\* a touched chunk from whose view nothing was read, several operations later
C10_Witness ==
    /\ chunk # <<>>
    /\ chunk[1].tainted
    /\ chunk[1].got = <<>>
    /\ chunk[1].len > 0
    /\ last.op = "into_list"

\* C11: root() on a stream that holds fewer than 4 identifier bytes (none at
\* all included) returns an unexpected-end-of-input error, never a root list
\* and never an end-of-list signal.
C11_RootShortIdentifier ==
    (last.op = "root" /\ Len(data) - last.at < 4)
    => /\ last.res = UnexpectedEndOfFile
       /\ last.res # "none"
       /\ last.res # "list"
       /\ lists = <<>>
       /\ chunk = <<>>
       /\ pos = Len(data)

\* root() was called on the empty stream
C11_Witness ==
    /\ last.op = "root"
    /\ data = <<>>
    /\ last.res = UnexpectedEndOfFile

\* root() was called where 3 bytes were left of a longer stream
C11_WitnessPartial ==
    /\ last.op = "root"
    /\ last.at > 0
    /\ Len(data) - last.at = 3
    /\ last.res = UnexpectedEndOfFile

\* C12: when a child header has its 4 identifier bytes but fewer than 4 bytes
\* of length field can be had, next() returns an error, not end-of-list, and
\* produces no child.
C12_TruncatedLength ==
    (/\ last.op = "next"
     /\ last.hdrAt >= 0
     /\ AvailAt(last.hdrAt) \in 4..7)
    => /\ last.res \in Errors
       /\ last.res # "none"
       /\ last.res # "chunk"
       /\ lists[last.depth].lastRes \in Errors
       /\ chunk = <<>>
       /\ pos = last.hdrAt + AvailAt(last.hdrAt)

\* next() met the end of the input two bytes into the length field of a child
\* that is not the first one of its list
C12_Witness ==
    /\ last.op = "next"
    /\ last.hdrAt >= 0
    /\ AvailAt(last.hdrAt) = 6
    /\ last.res \in Errors
    /\ last.prevHdr >= 0
    /\ chunk = <<>>

\* the attempts of the load() call at hand that failed
FailedAttempts == { i \in 1..Len(ld.tried) : ld.tried[i].res # "ok" }

\* C13: load() tries PNG, GIF, WEBP, JPEG in this order, with the source at
\* offset 0 at every attempt; it returns the metadata of the first decoder
\* that succeeds and tries none after it; an error of a decoder, of whatever
\* kind, only moves it on to the next one; when all four have failed it
\* returns an invalid-format error.
C13_LoadOrder ==
    LET t == ld.tried
        order == <<"Png", "Gif", "Webp", "Jpeg">>
    IN  /\ Len(t) <= 4
        /\ \A i \in 1..Len(t) : t[i].fmt = order[i] /\ t[i].at = 0
        /\ \A i \in 1..(Len(t) - 1) : t[i].res # "ok"
        /\ (ld.pc \in {"seek", "try"}) =>
              /\ ld.idx = Len(t) + 1
              /\ FailedAttempts = 1..Len(t)
        /\ (ld.pc = "done" /\ ld.res = "ok") =>
              /\ t # <<>>
              /\ t[Len(t)].res = "ok"
              /\ (ld.conv = NoConv) =>
                    ld.gmd = [variant |-> order[Len(t)], md |-> t[Len(t)].md]
        /\ (ld.pc = "done" /\ FailedAttempts = 1..4) => ld.res = InvalidFormat
        /\ (ld.pc = "done" /\ ld.res = InvalidFormat) => FailedAttempts = 1..4
        /\ (ld.pc = "done" /\ ld.res \notin {"ok", InvalidFormat}) =>
              /\ ld.res = IoFailure
              /\ Len(t) < 4
              /\ FailedAttempts = 1..Len(t)

\* the WEBP decoder succeeded after PNG and GIF had failed with different
\* errors and had left the source away from offset 0
C13_Witness ==
    /\ ld.pc = "done"
    /\ ld.res = "ok"
    /\ Len(ld.tried) = 3
    /\ ld.tried[1].res = InvalidFormat
    /\ ld.tried[2].res = IoFailure
    /\ ld.gmd.variant = "Webp"
    /\ ld.at > 0

\* all four decoders failed
C13_WitnessNone ==
    /\ ld.pc = "done"
    /\ ld.res = InvalidFormat
    /\ Len(ld.tried) = 4
    /\ ld.tried[4].res = UnexpectedEndOfFile

\* C14: from_generic / into::<T>() return Ok with the contained metadata
\* exactly when the variant of the GenericMetadata is the one of marker T and
\* otherwise Err with the original value unchanged; from_generic_ref /
\* as_ref::<T>() return Some for exactly the same pairs.
C14_MarkerConversion ==
    LET c == ld.conv
    IN  /\ c.op = "into" =>
              /\ c.res = "Ok" <=> c.marker = c.orig.variant
              /\ c.res = "Ok" => c.md = c.orig.md
              /\ c.res # "Ok" => (c.res = "Err" /\ c.back = c.orig /\ ld.gmd = c.orig)
        /\ c.op = "as_ref" =>
              /\ c.res = "Some" <=> c.marker = c.orig.variant
              /\ c.res = "Some" => c.md = c.orig.md
              /\ c.res # "Some" => c.res = "None"
              /\ ld.gmd = c.orig
        /\ (c.op # "" /\ ld.gmd # NoGmd) =>
              \A m \in Markers :
                 (FromGeneric(m, ld.gmd).res = "Ok") <=> (FromGenericRef(m, ld.gmd).res = "Some")

\* into::<Gif>() on a Png value gave the value back
C14_Witness ==
    /\ ld.conv.op = "into"
    /\ ld.conv.marker = "Gif"
    /\ ld.conv.res = "Err"
    /\ ld.gmd.variant = "Png"
    /\ ld.gmd.md = MaxMd

\* into::<Webp>() on a Webp value gave its metadata
C14_WitnessOk ==
    /\ ld.conv.op = "into"
    /\ ld.conv.marker = "Webp"
    /\ ld.conv.res = "Ok"
    /\ ld.conv.md = MaxMd

\* every list that has a current child has counted the bytes consumed since
\* the end of that child's header
CountsSinceHeader(ls, p) ==
    \A j \in 1..Len(ls) :
       ls[j].lastRes = "chunk" => ls[j].cur_chunk_read = p - (ls[j].childHdr + 8)

\* C15: between operations the cur_chunk_read of every list with a current
\* child equals the bytes consumed from the source since that child's header
\* was parsed, whether by payload reads, by the type-tag read of a nested
\* list, or by the headers, payload reads and skips of any list nested below;
\* what the list's own next() consumes when it produces no child is not
\* counted in its own cur_chunk_read.
C15_CounterTracksConsumption ==
    [][ /\ CountsSinceHeader(lists', pos')
        /\ (/\ lists' # <<>>
            /\ Len(lists') = Len(lists)
            /\ lists'[Len(lists')].lastRes \notin {"chunk", "fresh"})
           => lists'[Len(lists')].cur_chunk_read = lists[Len(lists)].cur_chunk_read
      ]_vars

\* two lists below the root list, a grandchild whose payload is being read,
\* and the two ancestors' counters ahead of the innermost list's by the
\* headers and type tags read in between
C15_Witness ==
    /\ Len(lists) = 3
    /\ chunk # <<>>
    /\ last.op = "read"
    /\ last.len > 0
    /\ lists[3].cur_chunk_read = Len(chunk[1].got)
    /\ lists[2].cur_chunk_read > lists[3].cur_chunk_read + 12
    /\ lists[1].cur_chunk_read > lists[2].cur_chunk_read

\* the next() of a nested list skipped an unread remainder, and the
\* enclosing list counted the skipped bytes
C15_WitnessSkip ==
    /\ Len(lists) >= 2
    /\ last.op = "next"
    /\ last.skipped > 0
    /\ last.res = "chunk"
    /\ lists[Len(lists) - 1].cur_chunk_read = pos - (lists[Len(lists) - 1].childHdr + 8)
    /\ lists[Len(lists)].cur_chunk_read = 0

\* C16: in every reachable state every live list has
\* cur_chunk_read <= cur_chunk_len (and neither is negative), so the u32
\* addition in Counter::read stays within the declared length, itself a u32,
\* and cur_chunk_len - cur_chunk_read in next() is never negative.
C16_ReadWithinLen ==
    \A j \in 1..Len(lists) :
       /\ 0 <= lists[j].cur_chunk_read
       /\ lists[j].cur_chunk_read <= lists[j].cur_chunk_len
       /\ ToSkip(lists[j]) = lists[j].cur_chunk_len - lists[j].cur_chunk_read

\* a child read to its last byte was read again: the counter stays at the
\* declared length
C16_Witness ==
    /\ lists # <<>>
    /\ chunk # <<>>
    /\ last.op = "read"
    /\ last.req > 0
    /\ last.len = 0
    /\ lists[Len(lists)].cur_chunk_len > 0
    /\ lists[Len(lists)].cur_chunk_read = lists[Len(lists)].cur_chunk_len
    /\ pos < Len(data)

\* a nested list has consumed all of the child it was made from
C16_WitnessNested ==
    /\ Len(lists) >= 2
    /\ lists[Len(lists)].sawNone
    /\ lists[Len(lists) - 1].cur_chunk_len > 4
    /\ lists[Len(lists) - 1].cur_chunk_read = lists[Len(lists) - 1].cur_chunk_len

\* C17: no live list, and nothing derived from it, has consumed the source
\* beyond the list's declared length counted from the end of its header; a
\* read on a child delivers no more than what is left of the parent; and a
\* next() called when the previous child's declared length reaches beyond the
\* parent's end returns an unexpected-end-of-input error without a header
\* read and without passing the parent's end.
C17_BoundedByDeclaredLength ==
    /\ \A j \in 1..Len(lists) :
          /\ lists[j].hdr + 8 <= pos
          /\ pos - (lists[j].hdr + 8) <= lists[j].len
    /\ (last.op = "read" /\ last.depth >= 1)
          => last.len <= ListEnd(last.depth) - last.at
    /\ (/\ last.op = "next"
        /\ last.prevHdr >= 0
        /\ last.prevLen > ListEnd(last.depth) - (last.prevHdr + 8))
          => /\ last.res = UnexpectedEndOfFile
             /\ last.hdrAt = -1
             /\ chunk = <<>>
             /\ lists[last.depth].lastRes = UnexpectedEndOfFile
             /\ pos <= ListEnd(last.depth)

\* the root list's next() had to skip a child declared longer than what was
\* left of the root list: it stopped at the end of the root list, with source
\* bytes left behind it
C17_Witness ==
    /\ last.op = "next"
    /\ last.depth = 1
    /\ last.prevHdr >= 0
    /\ last.prevLen > ListEnd(1) - (last.prevHdr + 8)
    /\ last.skipped > 0
    /\ last.res = UnexpectedEndOfFile
    /\ pos = ListEnd(1)
    /\ pos < Len(data)

\* the view of such a child has delivered the parent's last byte and
\* delivers nothing more
C17_WitnessRead ==
    /\ last.op = "read"
    /\ last.req > 0
    /\ last.len = 0
    /\ chunk # <<>>
    /\ Len(chunk[1].got) < chunk[1].len
    /\ pos = ListEnd(Len(lists))
    /\ pos < Len(data)

PayloadAvail(h, len) == Min(len, AvailAt(h))

\* C19: into_list() on an untouched RIFF or LIST chunk that can obtain 4
\* payload bytes consumes exactly these 4 bytes and yields a list with the
\* chunk's identifier and declared length, the 4 bytes as type tag and
\* cur_chunk_len = cur_chunk_read = 0; when fewer than 4 payload bytes are
\* obtainable, because the declared length is below 4 or the stream ends
\* early, it returns an unexpected-end-of-input error and no list.
C19_IntoListTypeTag ==
    (/\ last.op = "into_list"
     /\ ~last.flag
     /\ last.id \in {RIFF, LIST})
    => IF PayloadAvail(last.at, last.len) >= 4
       THEN /\ last.res = "list"
            /\ pos = last.at + 4
            /\ chunk = <<>>
            /\ Len(lists) = last.depth + 1
            /\ lists[Len(lists)].chunk_id = last.id
            /\ lists[Len(lists)].len = last.len
            /\ lists[Len(lists)].chunk_type = Bytes(data, last.at, 4)
            /\ lists[Len(lists)].cur_chunk_len = 0
            /\ lists[Len(lists)].cur_chunk_read = 0
       ELSE /\ last.res = UnexpectedEndOfFile
            /\ pos = last.at + PayloadAvail(last.at, last.len)
            /\ chunk = <<>>
            /\ Len(lists) = last.depth

\* a LIST child two lists deep became a list
C19_Witness ==
    /\ last.op = "into_list"
    /\ last.res = "list"
    /\ last.id = LIST
    /\ Len(lists) = 3
    /\ lists[3].chunk_type = TagWxyz \/ lists[3].chunk_type = TagHi
    /\ pos = last.at + 4

\* a LIST child of declared length 2 was refused although source bytes follow
C19_WitnessShort ==
    /\ last.op = "into_list"
    /\ last.res = UnexpectedEndOfFile
    /\ last.len = 2
    /\ pos = last.at + 2
    /\ pos < Len(data)

\* a LIST child was refused because the stream ended inside its type tag
C19_WitnessEof ==
    /\ last.op = "into_list"
    /\ last.res = UnexpectedEndOfFile
    /\ last.len >= 4
    /\ pos = Len(data)

\* C20: a successful root() has consumed exactly 12 bytes: the identifier,
\* which is "RIFF", the length field, whose little-endian value is the
\* declared length of the returned list, and the type tag, which is the
\* list's chunk_type; the list's view ends at the declared length counted
\* from the end of the length field, so that len - 4 bytes are left to it.
C20_RootHeader ==
    (last.op = "root" /\ last.res = "list")
    => /\ pos = last.at + 12
       /\ Len(lists) = 1
       /\ chunk = <<>>
       /\ lists[1].chunk_id = RIFF
       /\ Bytes(data, last.at, 4) = RIFF
       /\ N(lists[1].len) = Bytes(data, last.at + 4, 4)
       /\ lists[1].chunk_type = Bytes(data, last.at + 8, 4)
       /\ lists[1].hdr = last.at
       /\ lists[1].limit = lists[1].len - 4
       /\ pos + lists[1].limit = last.at + 8 + lists[1].len
       /\ lists[1].cur_chunk_len = 0
       /\ lists[1].cur_chunk_read = 0

\* root() on the stream of test_flat_chunks
C20_Witness ==
    /\ last.op = "root"
    /\ last.res = "list"
    /\ data = FlatChunksData
    /\ pos = 12
    /\ lists[1].len = 37
    /\ lists[1].chunk_type = TagAbcd

\* root() on the second container of a stream
C20_WitnessSecond ==
    /\ last.op = "root"
    /\ last.res = "list"
    /\ last.at > 0

\* C21: a next() call on a list whose previous next() returned end-of-list
\* or an unexpected-end-of-input error returns no child: it returns
\* end-of-list or an error again, and the number of children the list has
\* produced stays what it was.
C21_EndIsTerminal ==
    (last.op = "next" /\ last.prevRes \in {"none", UnexpectedEndOfFile})
    => /\ last.res \in {"none", UnexpectedEndOfFile}
       /\ chunk = <<>>
       /\ lists[last.depth].lastRes \in {"none", UnexpectedEndOfFile}
       /\ lists[last.depth].childHdr = last.prevHdr
       /\ lists[last.depth].cur_chunk_len = last.prevLen

\* a next() that had failed inside a header was called again with source
\* bytes left behind the list, and returned end-of-list
C21_Witness ==
    /\ last.op = "next"
    /\ last.prevRes = UnexpectedEndOfFile
    /\ last.res = "none"
    /\ lists[last.depth].count >= 1
    /\ pos < Len(data)

\* a next() that had returned end-of-list was called again
C21_WitnessAfterNone ==
    /\ last.op = "next"
    /\ last.prevRes = "none"
    /\ last.res \in {"none", UnexpectedEndOfFile}
    /\ lists[last.depth].count >= 2

\* C22: a next() call that produces a child sets cur_chunk_read to 0 and
\* cur_chunk_len to the child's declared length; a call that returns
\* end-of-list or an error leaves both as they were; and no next() call
\* changes the identifier, the declared length or the type tag of the list
\* it is called on or of any list around it.
C22_NextFrame ==
    [][ last'.op = "next" =>
          LET top == Len(lists)
          IN  /\ Len(lists') = top
              /\ \A j \in 1..top :
                    /\ lists'[j].chunk_id = lists[j].chunk_id
                    /\ lists'[j].len = lists[j].len
                    /\ lists'[j].chunk_type = lists[j].chunk_type
                    /\ j < top => lists'[j].cur_chunk_len = lists[j].cur_chunk_len
              /\ IF last'.res = "chunk"
                 THEN /\ lists'[top].cur_chunk_read = 0
                      /\ lists'[top].cur_chunk_len = last'.len
                      /\ chunk' # <<>>
                      /\ chunk'[1].len = last'.len
                      /\ N(last'.len) = Bytes(data, last'.hdrAt + 4, 4)
                 ELSE /\ lists'[top].cur_chunk_read = lists[top].cur_chunk_read
                      /\ lists'[top].cur_chunk_len = lists[top].cur_chunk_len
      ]_vars

\* a next() that skipped the unread bytes of the last child and returned
\* end-of-list: the cursor still shows that child as unread
C22_Witness ==
    /\ last.op = "next"
    /\ last.res = "none"
    /\ last.skipped > 0
    /\ lists[last.depth].cur_chunk_len = last.prevLen
    /\ lists[last.depth].cur_chunk_read < lists[last.depth].cur_chunk_len
    /\ lists[last.depth].cur_chunk_read > 0

\* a next() that produced a child after a child that had been read in part
C22_WitnessChild ==
    /\ last.op = "next"
    /\ last.res = "chunk"
    /\ last.skipped > 0
    /\ last.len # last.prevLen
    /\ lists[last.depth].cur_chunk_read = 0
    /\ lists[last.depth].cur_chunk_len = last.len

\* C23: a next() call that gets as far as reading a header reads it at the
\* byte right after the last declared payload byte of the child produced by
\* the call before, whatever the parity of that child's length and whatever
\* part of it was read, and right after the type tag for the first child; a
\* child it returns has the 4 bytes at that offset as identifier.
C23_NoPadding ==
    (last.op = "next" /\ last.hdrAt >= 0)
    => /\ last.prevRes = "chunk" =>
             /\ last.hdrAt = last.prevHdr + 8 + last.prevLen
             /\ last.at + last.skipped = last.hdrAt
       /\ last.prevRes = "fresh" => last.hdrAt = lists[last.depth].hdr + 12
       /\ last.res = "chunk" =>
             /\ last.id = Bytes(data, last.hdrAt, 4)
             /\ chunk[1].hdr = last.hdrAt
             /\ pos = last.hdrAt + 8

\* the child after a child of odd length that was not read to its end, in
\* the stream of test_nested_chunks
C23_Witness ==
    /\ data = NestedChunksData
    /\ last.op = "next"
    /\ last.res = "chunk"
    /\ last.prevRes = "chunk"
    /\ last.prevLen % 2 = 1
    /\ last.skipped > 0
    /\ last.hdrAt = last.prevHdr + 8 + last.prevLen
    /\ last.id \in {IdA, IdB, IdC, IdD, IdE, LIST}

\* the child after a child of odd length that was read to its end
C23_WitnessRead ==
    /\ last.op = "next"
    /\ last.res = "chunk"
    /\ last.prevRes = "chunk"
    /\ last.prevLen % 2 = 1
    /\ last.skipped = 0
    /\ last.at = last.hdrAt

\* the fields of list l that only its own next() writes
HeaderCursor(l) == <<l.count, l.childHdr, l.cur_chunk_len, l.lastRes, l.sawNone>>

MaxChildren(len) == (len - 4) \div 8

\* C25: every child a list has produced took at least 8 header bytes out of
\* the len - 4 bytes of the list's view and out of the source, so a list of
\* declared length L has produced at most floor((L - 4) / 8) children,
\* zero-length children included.
ChildrenBounded ==
    /\ \A j \in 1..Len(lists) :
          /\ lists[j].limit >= 0
          /\ 8 * lists[j].count <= lists[j].len - 4 - lists[j].limit
          /\ 8 * lists[j].count <= pos - (lists[j].hdr + 12)
          /\ lists[j].count <= MaxChildren(lists[j].len)
    /\ (last.op = "next" /\ last.res = "chunk") => pos >= last.at + 8

\* the innermost list has returned end-of-list or an error
Ended == lists # <<>> /\ chunk = <<>> /\ lists[Len(lists)].lastRes \in {"none", UnexpectedEndOfFile}

\* C25: a caller that keeps calling next(), releasing each child it is given,
\* gets end-of-list or an error from every list it walks after finitely many
\* calls; and in every state a list of declared length L has produced at most
\* floor((L - 4) / 8) children, each having taken at least 8 header bytes of
\* the list's view.
C25_WalkTerminates ==
    /\ []ChildrenBounded
    /\ []<>(lists = <<>> \/ Ended)

\* the root list of a container of declared length 33 has produced its 3
\* children, one of them of length 0, and its next() has returned end-of-list
C25_Witness ==
    /\ data = TwoFilesData
    /\ Len(lists) = 1
    /\ lists[1].len = 33
    /\ lists[1].count = 3
    /\ MaxChildren(33) = 3
    /\ last.op = "next"
    /\ last.res = "none"
    /\ pos < Len(data)

\* channels per pixel of a colour type byte, 0 for a byte that is none
Channels(color_type) ==
    CASE color_type = 3 -> 1
      [] color_type = 0 -> 1
      [] color_type = 4 -> 2
      [] color_type = 2 -> 3
      [] color_type = 6 -> 4
      [] OTHER -> 0

\* the bit depths allowed with a colour type byte
AllowedDepths(color_type) ==
    CASE color_type = 3 -> {1, 2, 4, 8}
      [] color_type = 0 -> {1, 2, 4, 8, 16}
      [] color_type \in {4, 2, 6} -> {8, 16}
      [] OTHER -> {}

\* C26: compute_color_depth(bit_depth, color_type) is Some(bit_depth *
\* channels) exactly for the allowed pairs (indexed 1,2,4,8 x1; grayscale
\* 1,2,4,8,16 x1; grayscale+alpha 8,16 x2; RGB 8,16 x3; RGB+alpha 8,16 x4)
\* and None for every other pair; the product is at most 64 and so is not
\* cut by the width of u8.
C26_ColorDepth ==
    png.called =>
       IF png.bit_depth \in AllowedDepths(png.color_type)
       THEN /\ png.res.some
            /\ png.res.val = png.bit_depth * Channels(png.color_type)
            /\ png.res.val <= 64
            /\ png.bit_depth * Channels(png.color_type) < 256
       ELSE ~png.res.some

\* 16-bit RGB with alpha: the largest product
C26_Witness ==
    /\ png.called
    /\ png.bit_depth = 16
    /\ png.color_type = 6
    /\ png.res.some
    /\ png.res.val = 64

\* 16-bit indexed colour is refused
C26_WitnessNone ==
    /\ png.called
    /\ png.bit_depth = 16
    /\ png.color_type = 3
    /\ ~png.res.some

====
